---- MODULE Spec2Model ----
(***************************************************************************)
(* Model of the MyPage candle pipeline (src/main.py and                    *)
(* src/src/resistance_support.py): fetch candles, add indicators, ask the  *)
(* chat endpoint for a summary, render index.html.                         *)
(*                                                                         *)
(* float64 values are modelled as fixed-point numbers with SCALE units per *)
(* 1.0, rounded to nearest at every division, plus the special values NaN  *)
(* and +/-inf.  Signed zeros are not distinguished: in the code the loss   *)
(* column holds -0.0 where the model holds 0, so a positive average gain   *)
(* over a zero average loss is -inf in pandas and +inf here; both give     *)
(* RSI = 100.                                                              *)
(***************************************************************************)
EXTENDS Integers, Sequences, FiniteSets, TLC

VARIABLES pc, entry, file0, file, file_opens, response, fetch_log, candles, input,
          locals, chat_log, completion, message, returned, err

vars == <<pc, entry, file0, file, file_opens, response, fetch_log, candles, input,
          locals, chat_log, completion, message, returned, err>>

(* ------------------------------ bounds -------------------------------- *)
SCALE == 1000
MaxRows == 36
MaxPipeRows == 120
MaxMotif == 3

(* ------------------------- program constants -------------------------- *)
granularity == 3600
limit == 200
SMAWindow == 20
EMASpan == 20
RSIWindow == 14
ShortSpan == 12
LongSpan == 26
SignalSpan == 9
TailRows == 100
OHLCVColumns == <<"time", "low", "high", "open", "close", "volume">>
IndicatorColumns == {"SMA20", "EMA20", "RSI", "MACD", "Signal"}
symbol == "SOL-USD"
gpt_version == "5"
PROMPT ==
    <<"Identify support and resistance levels for Solana based on the provided OHLCV data and technical indicators.",
      " Write a short summary in this format: Solana is currently trading at $X. The daily support level is $Y and the daily resistance level is $Z.">>

(* --------------------------- float64 values --------------------------- *)
FNum(x) == [k |-> "num", v |-> x]
NaN == [k |-> "nan", v |-> 0]
FInf(s) == [k |-> "inf", v |-> s]
FromNumber(n) == FNum(n * SCALE)
IsNaN(a) == a.k = "nan"
IsNum(a) == a.k = "num"

RoundDiv(a, b) == IF b > 0 THEN (2 * a + b) \div (2 * b)
                  ELSE (2 * (0 - a) + (0 - b)) \div (2 * (0 - b))

Sign(x) == IF x > 0 THEN 1 ELSE IF x < 0 THEN 0 - 1 ELSE 0

FNeg(a) == IF a.k = "nan" THEN NaN ELSE [k |-> a.k, v |-> 0 - a.v]

FAdd(a, b) ==
    IF a.k = "nan" \/ b.k = "nan" THEN NaN
    ELSE IF a.k = "inf" /\ b.k = "inf" THEN (IF a.v = b.v THEN a ELSE NaN)
    ELSE IF a.k = "inf" THEN a
    ELSE IF b.k = "inf" THEN b
    ELSE FNum(a.v + b.v)

FSub(a, b) == FAdd(a, FNeg(b))

FDiv(a, b) ==
    IF a.k = "nan" \/ b.k = "nan" THEN NaN
    ELSE IF b.k = "inf" THEN (IF a.k = "inf" THEN NaN ELSE FNum(0))
    ELSE IF b.v = 0 THEN
        (IF a.k = "inf" THEN a
         ELSE IF a.v = 0 THEN NaN
         ELSE FInf(Sign(a.v)))
    ELSE IF a.k = "inf" THEN FInf(a.v * Sign(b.v))
    ELSE FNum(RoundDiv(a.v * SCALE, b.v))

FGt(a, b) ==
    /\ a.k # "nan" /\ b.k # "nan"
    /\ IF a.k = "inf" THEN a.v = 1 /\ b # a
       ELSE IF b.k = "inf" THEN b.v = 0 - 1
       ELSE a.v > b.v

FLt(a, b) == FGt(b, a)

(* ------------------------- pandas Series ops -------------------------- *)
(* A column as a sequence of values, in row order. *)
Series(f) == f \o <<>>

Column(df, name) == Series([i \in 1..Len(df) |-> df[i][name]])

(* rolling(window=w).mean(): a running sum and count of the non-NaN values
   in the window, one value entering and one leaving per row; the mean is
   defined once the window holds min_periods = w observations. *)
(* Mutant of RollingStep: the value leaving the window is never removed. *)
RollingStepNoRemove(xs, w, i, st) ==
    LET add == IF IsNaN(xs[i]) THEN 0 ELSE xs[i].v
        addn == IF IsNaN(xs[i]) THEN 0 ELSE 1
        s == st.sum + add
        n == st.nobs + addn
    IN [sum |-> s, nobs |-> n,
        out |-> <<IF n >= w THEN FNum(RoundDiv(s, n)) ELSE NaN>>]

RollingStep(xs, w, i, st) ==
    LET add == IF IsNaN(xs[i]) THEN 0 ELSE xs[i].v
        addn == IF IsNaN(xs[i]) THEN 0 ELSE 1
        old == IF i > w /\ ~IsNaN(xs[i - w]) THEN xs[i - w].v ELSE 0
        oldn == IF i > w /\ ~IsNaN(xs[i - w]) THEN 1 ELSE 0
        s == st.sum + add - old
        n == st.nobs + addn - oldn
    IN [sum |-> s, nobs |-> n,
        out |-> <<IF n >= w THEN FNum(RoundDiv(s, n)) ELSE NaN>>]

RECURSIVE RollingRange(_, _, _, _, _)
RollingRange(xs, w, lo, hi, st) ==
    IF lo > hi THEN [sum |-> st.sum, nobs |-> st.nobs, out |-> <<>>]
    ELSE IF lo = hi THEN RollingStep(xs, w, lo, st)
    ELSE LET mid == (lo + hi) \div 2
             left == RollingRange(xs, w, lo, mid, st)
             right == RollingRange(xs, w, mid + 1, hi, left)
         IN [out |-> left.out \o right.out, sum |-> right.sum, nobs |-> right.nobs]

RollingMean(xs, w) ==
    RollingRange(xs, w, 1, Len(xs), [sum |-> 0, nobs |-> 0, out |-> <<>>]).out

(* ewm(span, adjust=False).mean(): weighted = (1-a)*weighted + a*cur with
   a = 2/(span+1), seeded with the first value, min_periods = 0. *)
EwmStep(weighted, cur, span) ==
    IF IsNaN(weighted) THEN cur
    ELSE IF IsNaN(cur) THEN weighted
    ELSE IF weighted = cur THEN weighted
    ELSE FNum(RoundDiv((span - 1) * weighted.v + 2 * cur.v, span + 1))

RECURSIVE EwmRange(_, _, _, _, _)
EwmRange(xs, span, lo, hi, weighted) ==
    IF lo > hi THEN [weighted |-> weighted, out |-> <<>>]
    ELSE IF lo = hi THEN
        LET nw == IF lo = 1 THEN xs[1] ELSE EwmStep(weighted, xs[lo], span)
        IN [weighted |-> nw, out |-> <<nw>>]
    ELSE LET mid == (lo + hi) \div 2
             left == EwmRange(xs, span, lo, mid, weighted)
             right == EwmRange(xs, span, mid + 1, hi, left.weighted)
         IN [out |-> left.out \o right.out, weighted |-> right.weighted]

(* Mutant of EwmMean: min_periods = span, so the first span-1 values are NaN. *)
EwmMeanMinPeriods(xs, span) ==
    LET full == EwmRange(xs, span, 1, Len(xs), NaN).out
    IN Series([i \in 1..Len(xs) |-> IF i < span THEN NaN ELSE full[i]])

EwmMean(xs, span) == EwmRange(xs, span, 1, Len(xs), NaN).out

Diff(xs) ==
    Series([i \in 1..Len(xs) |-> IF i = 1 THEN NaN ELSE FSub(xs[i], xs[i - 1])])

Gain(delta) ==
    Series([i \in 1..Len(delta) |->
              IF FGt(delta[i], FNum(0)) THEN delta[i] ELSE FNum(0)])

Loss(delta) ==
    Series([i \in 1..Len(delta) |->
              FNeg(IF FLt(delta[i], FNum(0)) THEN delta[i] ELSE FNum(0))])

(* Mutant of RelativeStrength: a zero average loss gives an undefined RS. *)
RelativeStrengthGuarded(avg_gain, avg_loss) ==
    Series([i \in 1..Len(avg_gain) |->
              IF avg_loss[i] = FNum(0) THEN NaN ELSE FDiv(avg_gain[i], avg_loss[i])])

RelativeStrength(avg_gain, avg_loss) ==
    Series([i \in 1..Len(avg_gain) |-> FDiv(avg_gain[i], avg_loss[i])])

RSIFromRS(rs) ==
    Series([i \in 1..Len(rs) |->
              FSub(FromNumber(100),
                   FDiv(FromNumber(100), FAdd(FromNumber(1), rs[i])))])

MACDLine(short_ema, long_ema) ==
    Series([i \in 1..Len(short_ema) |-> FSub(short_ema[i], long_ema[i])])

(* ----------------------------- add_indicators ------------------------- *)
IndicatorLocals(df) ==
    LET close == Column(df, "close")
        delta == Diff(close)
        gain == Gain(delta)
        loss == Loss(delta)
        avg_gain == RollingMean(gain, RSIWindow)
        avg_loss == RollingMean(loss, RSIWindow)
        rs == RelativeStrength(avg_gain, avg_loss)
        short_ema == EwmMean(close, ShortSpan)
        long_ema == EwmMean(close, LongSpan)
        macd == MACDLine(short_ema, long_ema)
    IN [SMA20 |-> RollingMean(close, SMAWindow),
        EMA20 |-> EwmMean(close, EMASpan),
        delta |-> delta, gain |-> gain, loss |-> loss,
        avg_gain |-> avg_gain, avg_loss |-> avg_loss, rs |-> rs,
        RSI |-> RSIFromRS(rs),
        short_ema |-> short_ema, long_ema |-> long_ema,
        MACD |-> macd,
        Signal |-> EwmMean(macd, SignalSpan)]

WithIndicators(df, loc) ==
    [i \in 1..Len(df) |->
       [time |-> df[i].time, low |-> df[i].low, high |-> df[i].high,
        open |-> df[i].open, close |-> df[i].close, volume |-> df[i].volume,
        SMA20 |-> loc.SMA20[i], EMA20 |-> loc.EMA20[i], RSI |-> loc.RSI[i],
        MACD |-> loc.MACD[i], Signal |-> loc.Signal[i]]]

(* Mutant of add_indicators: rows whose SMA20 is NaN are dropped. *)
add_indicators_dropna(df) ==
    LET HasSMA(row) == ~IsNaN(row.SMA20)
    IN SelectSeq(WithIndicators(df, IndicatorLocals(df)), HasSMA)

add_indicators(df) == WithIndicators(df, IndicatorLocals(df))

(* ------------------------ upstream candle data ------------------------ *)
Deltas == {0 - 2, 0 - 1, 0, 1, 3}
Motifs == UNION {[1..n -> Deltas] : n \in 1..MaxMotif}
Bases == {10, 150}
Clocks == {1000000}

RECURSIVE MotifSum(_, _)
MotifSum(motif, j) == IF j = 0 THEN 0 ELSE MotifSum(motif, j - 1) + motif[j]

(* closes[1] = base, and each later close adds the next delta of the motif,
   the motif repeating. *)
Closes(base, motif, L) ==
    [k \in 1..L |->
       base + ((k - 1) \div Len(motif)) * MotifSum(motif, Len(motif))
            + MotifSum(motif, (k - 1) % Len(motif))]

Max2(a, b) == IF a > b THEN a ELSE b
Min2(a, b) == IF a < b THEN a ELSE b

(* The JSON array the exchange answers with, oldest candle first. *)
UpstreamRows(end, closes) ==
    [k \in 1..Len(closes) |->
       LET o == IF k = 1 THEN closes[1] ELSE closes[k - 1]
           c == closes[k]
       IN <<end - (Len(closes) - k + 1) * granularity,
            Min2(o, c) - 1, Max2(o, c) + 1, o, c, 1 + (k % 3)>>]

Orders == {"asc", "desc", "interleaved"}

Reorder(rows, order) ==
    LET n == Len(rows)
        h == (n + 1) \div 2
    IN IF order = "asc" THEN rows
       ELSE IF order = "desc" THEN [i \in 1..n |-> rows[n + 1 - i]]
       ELSE [i \in 1..n |-> IF i <= h THEN rows[2 * i - 1] ELSE rows[2 * (i - h)]]

(* ------------------------- get_coinbase_candles ----------------------- *)
Ok(x) == [ok |-> TRUE, val |-> x, exc |-> "none"]
Raise(e) == [ok |-> FALSE, val |-> <<>>, exc |-> e]

Request(end) ==
    [url |-> <<"https://api.exchange.coinbase.com/products/", symbol, "/candles">>,
     granularity |-> granularity,
     start |-> end - granularity * limit,
     end |-> end]

DataFrame(data) ==
    Series([i \in 1..Len(data) |->
              [time |-> data[i][1], low |-> FromNumber(data[i][2]),
               high |-> FromNumber(data[i][3]), open |-> FromNumber(data[i][4]),
               close |-> FromNumber(data[i][5]), volume |-> FromNumber(data[i][6])]])

to_datetime(t) == [unit |-> "ns", epoch_s |-> t]

WithDatetime(df) ==
    Series([i \in 1..Len(df) |-> [df[i] EXCEPT !.time = to_datetime(@)]])

(* Mutant of sort_values: the rows stay in the order the response lists them. *)
sort_values_skipped(df) == df

(* sort_values("time"): ascending; the candle times of one response are
   distinct, so the order is determined. *)
sort_values(df) ==
    LET rank == Series([j \in 1..Len(df) |->
                          Cardinality({q \in 1..Len(df) :
                                         df[q].time.epoch_s < df[j].time.epoch_s})])
    IN Series([i \in 1..Len(df) |-> df[CHOOSE j \in 1..Len(df) : rank[j] = i - 1]])

get_coinbase_candles(resp) ==
    IF resp.kind = "not_json" THEN Raise("JSONDecodeError")
    ELSE IF resp.kind = "object" THEN Ok(sort_values(WithDatetime(DataFrame(<<>>))))
    ELSE IF \E i \in 1..Len(resp.rows) : Len(resp.rows[i]) # 6 THEN Raise("ValueError")
    ELSE Ok(sort_values(WithDatetime(DataFrame(resp.rows))))

(* ------------------------- analyze_with_chatgpt ----------------------- *)
tail(df, n) == IF Len(df) <= n THEN df ELSE SubSeq(df, Len(df) - n + 1, Len(df))

to_dict_records(df) == [i \in 1..Len(df) |-> df[i]]

DataSample(df) == to_dict_records(tail(df, TailRows))

ChatRequest(df) ==
    [model |-> <<"gpt-", gpt_version>>,
     messages |-> <<[role |-> "system", content |-> PROMPT],
                    [role |-> "user",
                     content |-> [label |-> "\n\nHere is the OHLCV + indicators data:\n",
                                  data_sample |-> DataSample(df)]]>>]

(* Text is a sequence of pieces; the string is their concatenation. *)
None == <<"<None>">>
ChatTexts ==
    {<<"Solana is currently trading at $150.",
       " The daily support level is $145 and the daily resistance level is $160.">>,
     <<"<b>", "Solana", " & ", "</b>">>,
     <<>>}
Completions == ChatTexts \cup {None}

Str(x) == IF x = None THEN <<"None">> ELSE x

(* ---------------------------- main / render --------------------------- *)
Digits == <<"0", "1", "2", "3", "4", "5", "6", "7", "8", "9">>
Pad2(n) == <<Digits[((n \div 10) % 10) + 1], Digits[(n % 10) + 1]>>
Pad4(n) == Pad2(n \div 100) \o Pad2(n % 100)

LocalTimes ==
    {[Y |-> 2025, M |-> 1, D |-> 9, h |-> 8, m |-> 5, s |-> 0],
     [Y |-> 2025, M |-> 12, D |-> 31, h |-> 23, m |-> 59, s |-> 59]}

strftime(t) ==
    Pad4(t.Y) \o <<"-">> \o Pad2(t.M) \o <<"-">> \o Pad2(t.D) \o <<" ">>
    \o Pad2(t.h) \o <<":">> \o Pad2(t.m) \o <<":">> \o Pad2(t.s)

lines == "-------------------------------------------------------------------------"

MainMessage(analysis, t) ==
    Str(analysis) \o <<"\n", lines, "\n End analysis at ">> \o strftime(t)

ResistanceSupportMessage(analysis) == Str(analysis)

TemplateHead ==
    <<"\n",
      "<!DOCTYPE html>\n",
      "<html lang=\"en\">\n",
      "  <head>\n",
      "    <meta charset=\"UTF-8\" />\n",
      "    <title>Imran A</title>\n",
      "    <link rel=\"stylesheet\" href=\"css/styles.css\" />\n",
      "    <link rel=\"icon\" href=\"images/myicon.ico?v=2\" />\n",
      "    <link rel=\"preconnect\" href=\"https://fonts.googleapis.com\" />\n",
      "    <link rel=\"preconnect\" href=\"https://fonts.gstatic.com\" crossorigin />\n",
      "    <link\n",
      "      href=\"https://fonts.googleapis.com/css2?family=Source+Code+Pro&display=swap\"\n",
      "      rel=\"stylesheet\"\n",
      "    />\n",
      "  </head>\n",
      "\n",
      "  <body>\n",
      "    <div>\n",
      "      <table id=\"topsection\">\n",
      "        <tr>\n",
      "          <td>\n",
      "            <img\n",
      "              class=\"profilepic\"\n",
      "              src=\"images/profilepic.png?v=2\"\n",
      "              alt=\"profile pic Imran Aurangzeb\"\n",
      "              srcset=\"\"\n",
      "            />\n",
      "          </td>\n",
      "          <td>\n",
      "            <h1 class=\"nametitle\">Imran A</h1>\n",
      "          </td>\n",
      "        </tr>\n",
      "      </table>\n",
      "    </div>\n",
      "\n",
      "    <hr size=\"3\" />\n",
      "\n",
      "    <div>\n",
      "      <p>\n",
      "        I began programming in BASIC on the Commodore 64 at the age of twelve.\n",
      "        In my fifth decade, following a long hiatus during which I pursued a\n",
      "        career in medicine, I chose to rekindle this passion. The journey has\n",
      "        proved immensely rewarding.\n",
      "      </p>\n",
      "      <br />\n",
      "    </div>\n",
      "\n",
      "    <div class=\"two-columns\">\n",
      "      <div class=\"column\">\n",
      "        <h2>Column One</h2>\n",
      "        <p>\n",
      "          ">>

TemplateTail ==
    <<"\n",
      "        </p>\n",
      "      </div>\n",
      "      <div class=\"column\">\n",
      "        <h2>Column Two</h2>\n",
      "        <p>\n",
      "          Suspendisse potenti. Nulla facilisi. Donec vitae eros vel sapien\n",
      "          suscipit porttitor. Phasellus at augue a mi pretium bibendum.\n",
      "          Suspendisse potenti. Nulla facilisi. Donec vitae eros vel sapien\n",
      "          suscipit porttitor. Phasellus at augue a mi pretium bibendum.\n",
      "        </p>\n",
      "      </div>\n",
      "    </div>\n",
      "  </body>\n",
      "</html>\n",
      "\n">>

(* Mutant of Content: the text is HTML-escaped before it is embedded. *)
EscapePiece(p) ==
    IF p = "<b>" THEN "&lt;b&gt;"
    ELSE IF p = "</b>" THEN "&lt;/b&gt;"
    ELSE IF p = " & " THEN " &amp; "
    ELSE p

ContentEscaped(analysis) ==
    TemplateHead \o [i \in 1..Len(analysis) |-> EscapePiece(analysis[i])] \o TemplateTail

Content(analysis) == TemplateHead \o analysis \o TemplateTail

NoFile == <<"<absent>">>
OldPage == <<"<previous index.html>">>

(* ------------------------------ pipeline ------------------------------ *)
NoResponse == [status |-> 0, kind |-> "none", rows |-> <<>>]
NoLocals == [none |-> TRUE]
NoErr == [step |-> "none", exc |-> "none"]
HttpStatuses == {200, 404, 500}
PipeLens == {0, 5, 20, 99, 100, 101, MaxPipeRows}
PipeMotifs == {<<1>>, <<3, 0 - 2>>}

BadShapeRows == <<<<1000000, 1, 2>>>>

Responses ==
    {[status |-> st, kind |-> "array",
      rows |-> Reorder(UpstreamRows(end, Closes(150, mo, L)), ord)] :
        st \in HttpStatuses, end \in Clocks, mo \in PipeMotifs, L \in PipeLens,
        ord \in Orders}
    \cup {[status |-> st, kind |-> k, rows |-> <<>>] :
            st \in HttpStatuses, k \in {"object", "not_json"}}
    \cup {[status |-> st, kind |-> "array", rows |-> BadShapeRows] :
            st \in HttpStatuses}

Init ==
    /\ pc = "start"
    /\ entry \in {"main", "get_resistance_support"}
    /\ file0 \in {NoFile, OldPage}
    /\ file = file0
    /\ file_opens = 0
    /\ returned = <<>>
    /\ response = NoResponse
    /\ fetch_log = <<>>
    /\ candles = <<>>
    /\ input = <<>>
    /\ locals = NoLocals
    /\ chat_log = <<>>
    /\ completion = None
    /\ message = <<>>
    /\ err = NoErr

GetCandles ==
    /\ pc = "start"
    /\ \E resp \in Responses, end \in Clocks :
         LET r == get_coinbase_candles(resp)
         IN /\ fetch_log' = Append(fetch_log, Request(end))
            /\ response' = resp
            /\ IF r.ok
               THEN /\ candles' = r.val
                    /\ pc' = "fetched"
                    /\ returned' = Append(returned, "get_coinbase_candles")
                    /\ err' = err
               ELSE /\ candles' = candles
                    /\ pc' = "raised"
                    /\ returned' = returned
                    /\ err' = [step |-> "get_coinbase_candles", exc |-> r.exc]
    /\ UNCHANGED <<entry, file0, file, file_opens, input, locals, chat_log, completion,
                   message>>

GetCandlesConnectionError ==
    /\ pc = "start"
    /\ \E end \in Clocks : fetch_log' = Append(fetch_log, Request(end))
    /\ pc' = "raised"
    /\ err' = [step |-> "get_coinbase_candles", exc |-> "ConnectionError"]
    /\ UNCHANGED <<entry, file0, file, file_opens, response, candles, input, locals,
                   chat_log, completion, message, returned>>

AddIndicators ==
    /\ pc = "fetched"
    /\ input' = candles
    /\ locals' = IndicatorLocals(candles)
    /\ candles' = add_indicators(candles)
    /\ pc' = "enriched"
    /\ returned' = Append(returned, "add_indicators")
    /\ UNCHANGED <<entry, file0, file, file_opens, response, fetch_log, chat_log,
                   completion, message, err>>

AnalyzeWithChatGPT ==
    /\ pc = "enriched"
    /\ chat_log' = Append(chat_log, ChatRequest(candles))
    /\ \E c \in Completions, t \in LocalTimes :
         /\ completion' = c
         /\ message' = IF entry = "main" THEN MainMessage(c, t)
                       ELSE ResistanceSupportMessage(c)
    /\ pc' = IF entry = "main" THEN "analyzed" ELSE "returned"
    /\ returned' = Append(returned, "analyze_with_chatgpt")
    /\ UNCHANGED <<entry, file0, file, file_opens, response, fetch_log, candles, input,
                   locals, err>>

(* Mutant of AnalyzeWithChatGPTRaises: the error is caught and the run goes on. *)
AnalyzeWithChatGPTRaisesSwallowed ==
    /\ pc = "enriched"
    /\ chat_log' = Append(chat_log, ChatRequest(candles))
    /\ message' = <<"analysis unavailable">>
    /\ pc' = IF entry = "main" THEN "analyzed" ELSE "returned"
    /\ UNCHANGED <<entry, file0, file, file_opens, response, fetch_log, candles, input,
                   locals, completion, returned, err>>

(* Mutant of AnalyzeWithChatGPTRaises: the failed request is sent again. *)
AnalyzeWithChatGPTRaisesRetried ==
    /\ pc = "enriched"
    /\ Len(chat_log) < 3
    /\ chat_log' = Append(chat_log, ChatRequest(candles))
    /\ UNCHANGED <<pc, entry, file0, file, file_opens, response, fetch_log, candles,
                   input, locals, completion, message, returned, err>>

AnalyzeWithChatGPTRaises ==
    /\ pc = "enriched"
    /\ chat_log' = Append(chat_log, ChatRequest(candles))
    /\ pc' = "raised"
    /\ err' = [step |-> "analyze_with_chatgpt", exc |-> "OpenAIError"]
    /\ UNCHANGED <<entry, file0, file, file_opens, response, fetch_log, candles, input,
                   locals, completion, message, returned>>

WriteIndexHtml ==
    /\ pc = "analyzed"
    /\ entry = "main"
    /\ file_opens' = file_opens + 1
    /\ \/ /\ file' = Content(message)
          /\ pc' = "done"
          /\ err' = err
       \/ /\ file' = file
          /\ pc' = "raised"
          /\ err' = [step |-> "open", exc |-> "OSError"]
       \/ /\ file' = <<>>
          /\ pc' = "raised"
          /\ err' = [step |-> "write", exc |-> "OSError"]
    /\ UNCHANGED <<entry, file0, response, fetch_log, candles, input, locals, chat_log,
                   completion, message, returned>>

Next ==
    \/ GetCandles
    \/ GetCandlesConnectionError
    \/ AddIndicators
    \/ AnalyzeWithChatGPT
    \/ AnalyzeWithChatGPTRaises
    \/ WriteIndexHtml

Spec == Init /\ [][Next]_vars

(* --------- add_indicators on a family of fetched candle series --------- *)
IndLens == {1, 2, 5, 13, 14, 15, 16, 19, 20, 21, 27, 30, MaxRows}

InitInd ==
    /\ pc = "fetched"
    /\ entry = "main"
    /\ file0 = NoFile
    /\ file = file0
    /\ file_opens = 0
    /\ returned = <<>>
    /\ \E end \in Clocks, base \in Bases, mo \in Motifs, L \in IndLens :
         LET cs == Closes(base, mo, L)
         IN /\ \A k \in 1..L : cs[k] >= 1
            /\ response = [status |-> 200, kind |-> "array",
                           rows |-> Reorder(UpstreamRows(end, cs), "desc")]
            /\ fetch_log = <<Request(end)>>
    /\ candles = get_coinbase_candles(response).val
    /\ input = <<>>
    /\ locals = NoLocals
    /\ chat_log = <<>>
    /\ completion = None
    /\ message = <<>>
    /\ err = NoErr

NextInd == AddIndicators

SpecInd == InitInd /\ [][NextInd]_vars

(* ============================== claims ================================ *)
Abs(x) == IF x < 0 THEN 0 - x ELSE x

RECURSIVE SumV(_, _, _)
SumV(xs, lo, hi) == IF lo > hi THEN 0 ELSE xs[hi].v + SumV(xs, lo, hi - 1)

Enriched == pc = "enriched"
CloseCol == Column(input, "close")
OHLCV == {OHLCVColumns[j] : j \in 1..6}

StrictlyIncreasing(xs) == \A i \in 1..(Len(xs) - 1) : FLt(xs[i], xs[i + 1])

PipelineSteps == <<"get_coinbase_candles", "add_indicators", "analyze_with_chatgpt">>

(* C1: a non-2xx status, or a malformed or empty body, makes the run end
   with a raised fetch error, with no chat request sent and index.html
   neither created nor overwritten. *)
C1_FetchFailureSurfaces ==
    (/\ Len(fetch_log) = 1
     /\ response # NoResponse
     /\ \/ response.status \notin 200..299
        \/ response.kind # "array"
        \/ response.rows = <<>>
        \/ \E i \in 1..Len(response.rows) : Len(response.rows[i]) # 6)
    => /\ pc = "raised"
       /\ err.step = "get_coinbase_candles"
       /\ chat_log = <<>>
       /\ file_opens = 0
       /\ file = file0

(* C2: index.html is opened for writing only after get_coinbase_candles,
   add_indicators and analyze_with_chatgpt have all returned, in that
   order; when one of them raises, the run ends there (pc = "raised" has
   no successor), the file was never opened and holds what it held before
   the run. *)
C2_AllOrNothing ==
    /\ file_opens > 0 => returned = PipelineSteps
    /\ file # file0 => file_opens > 0
    /\ (pc = "raised" /\ err.step \in {PipelineSteps[j] : j \in 1..3})
         => /\ file_opens = 0
            /\ file = file0

C2_Witness ==
    /\ pc = "raised"
    /\ err.step = "get_coinbase_candles"
    /\ file0 = OldPage
    /\ file = OldPage

(* C3: a run sends at most one chat-completion request and at most one
   candle request; the chat request is sent only after the single candle
   request returned; a failed call is not tried again. *)
C3_AtMostOnce ==
    /\ Len(fetch_log) <= 1
    /\ Len(chat_log) <= 1
    /\ Len(chat_log) = 1 => (Len(fetch_log) = 1 /\ Len(returned) >= 2
                             /\ returned[1] = "get_coinbase_candles")
    /\ (pc = "raised" /\ err.step = "get_coinbase_candles") => chat_log = <<>>

C3_Witness ==
    /\ pc = "raised"
    /\ err.step = "analyze_with_chatgpt"
    /\ Len(chat_log) = 1
    /\ Len(fetch_log) = 1

(* C4 as stated: the written index.html is the fixed template with the
   chat-completion text in the slot and nothing else added. *)
C4_OnlyCompletionInSlot ==
    (pc = "done" /\ completion # None)
    => file = TemplateHead \o completion \o TemplateTail

IsDigit(p) == \E d \in 1..10 : Digits[d] = p

(* C4 as amended: the written index.html is the fixed template whose slot
   holds the chat-completion text verbatim, followed by a newline, the line
   of dashes and " End analysis at " with the local time as
   YYYY-MM-DD HH:MM:SS; every other piece is the template's. *)
C4_CompletionThenFooter ==
    (pc = "done" /\ completion # None)
    => LET h == Len(TemplateHead)
           a == Len(completion)
           t == Len(TemplateTail)
           ts == h + a + 3
       IN /\ Len(file) = h + a + 3 + 19 + t
          /\ SubSeq(file, 1, h) = TemplateHead
          /\ SubSeq(file, h + 1, h + a) = completion
          /\ file[h + a + 1] = "\n"
          /\ file[h + a + 2] =
               "-------------------------------------------------------------------------"
          /\ file[h + a + 3] = "\n End analysis at "
          /\ \A q \in 1..19 :
               IF q \in {5, 8} THEN file[ts + q] = "-"
               ELSE IF q = 11 THEN file[ts + q] = " "
               ELSE IF q \in {14, 17} THEN file[ts + q] = ":"
               ELSE IsDigit(file[ts + q])
          /\ SubSeq(file, Len(file) - t + 1, Len(file)) = TemplateTail

C4_Witness ==
    /\ pc = "done"
    /\ completion = <<"<b>", "Solana", " & ", "</b>">>
    /\ file0 = OldPage

(* C5: add_indicators returns as many rows as it was given, in the same
   order, each with its time, low, high, open, close and volume unchanged,
   and with exactly the fields SMA20, EMA20, RSI, MACD and Signal added. *)
C5_RowsPreserved ==
    Enriched
    => /\ Len(candles) = Len(input)
       /\ \A i \in 1..Len(input) :
            /\ \A c \in OHLCV : candles[i][c] = input[i][c]
            /\ DOMAIN candles[i] = OHLCV \cup IndicatorColumns
            /\ DOMAIN input[i] = OHLCV

C5_Witness ==
    /\ Enriched
    /\ Len(input) >= SMAWindow
    /\ \E i \in 1..Len(candles) : IsNum(candles[i].SMA20)
    /\ \E i \in 1..Len(candles) : IsNaN(candles[i].SMA20)

(* C6: RSI is undefined at every 0-based index below 14, and from index 14
   on it lies in [0, 100] whenever the 14-candle average loss is > 0. *)
C6_RSIUndefinedBelow14 ==
    Enriched
    => \A i \in 1..Len(candles) :
         /\ i - 1 < RSIWindow => IsNaN(candles[i].RSI)
         /\ (i - 1 >= RSIWindow /\ FGt(locals.avg_loss[i], FNum(0)))
              => /\ IsNum(candles[i].RSI)
                 /\ candles[i].RSI.v >= 0
                 /\ candles[i].RSI.v <= 100 * SCALE

Scenario1 ==
    /\ Enriched
    /\ CloseCol = <<FromNumber(10), FromNumber(11), FromNumber(12), FromNumber(13),
                    FromNumber(14)>>

(* C7 as stated: for closes 10, 11, 12, 13, 14 the SMA20, RSI, MACD and
   Signal are undefined at every index while EMA20, EMA12 and EMA26 are
   defined at every index. *)
C7_MACDUndefined ==
    Scenario1
    => \A i \in 1..5 :
         /\ IsNaN(candles[i].SMA20) /\ IsNaN(candles[i].RSI)
         /\ IsNaN(candles[i].MACD) /\ IsNaN(candles[i].Signal)
         /\ IsNum(candles[i].EMA20)
         /\ IsNum(locals.short_ema[i]) /\ IsNum(locals.long_ema[i])

(* C7 as amended: for closes 10, 11, 12, 13, 14 the SMA20 and RSI are
   undefined at every index, while EMA20, EMA12, EMA26, MACD and Signal are
   defined at every index, with EMA20 = EMA12 = EMA26 = 10 and
   MACD = Signal = 0 at index 0. *)
C7_OnlySMAandRSIUndefined ==
    Scenario1
    => /\ \A i \in 1..5 :
            /\ IsNaN(candles[i].SMA20) /\ IsNaN(candles[i].RSI)
            /\ IsNum(candles[i].MACD) /\ IsNum(candles[i].Signal)
            /\ IsNum(candles[i].EMA20)
            /\ IsNum(locals.short_ema[i]) /\ IsNum(locals.long_ema[i])
       /\ candles[1].EMA20 = FromNumber(10)
       /\ locals.short_ema[1] = FromNumber(10)
       /\ locals.long_ema[1] = FromNumber(10)
       /\ candles[1].MACD = FNum(0)
       /\ candles[1].Signal = FNum(0)
       /\ \A i \in 2..5 : candles[i].MACD.v > 0 /\ candles[i].Signal.v > 0

C7_Witness == Scenario1 /\ Len(candles) = 5

(* C8: SMA20 is defined exactly at the 0-based indices i >= 19, and there
   it is the mean of close[i-19..i] (to the nearest representable value). *)
C8_SMA20 ==
    Enriched
    => \A i \in 1..Len(candles) :
         /\ IsNum(candles[i].SMA20) <=> i - 1 >= SMAWindow - 1
         /\ ~IsNum(candles[i].SMA20) => IsNaN(candles[i].SMA20)
         /\ IsNum(candles[i].SMA20)
              => 2 * Abs(SMAWindow * candles[i].SMA20.v
                         - SumV(CloseCol, i - SMAWindow + 1, i)) <= SMAWindow

C8_Witness ==
    /\ Enriched
    /\ Len(candles) > SMAWindow + 1
    /\ candles[SMAWindow].SMA20 # candles[SMAWindow + 2].SMA20
    /\ IsNaN(candles[SMAWindow - 1].SMA20)

SampleSent == chat_log[1].messages[2].content.data_sample

(* C9: whatever order the response lists its rows in, the data sample of
   the chat request holds exactly the min(100, L) candles with the largest
   timestamps, oldest first, each with the OHLCV values the response gave
   it and with indicators computed over the whole time-ordered series:
   SMA20 is defined exactly for the candles with at least 19 older candles
   in the response and is the mean of the 20 closes up to that candle, RSI
   is undefined for a candle with fewer than 13 older candles, and EMA20
   follows the recurrence from one sample row to the next. *)
C9_NewestCandlesSent ==
    (/\ Len(chat_log) = 1
     /\ pc \in {"analyzed", "returned"} \/ err.step = "analyze_with_chatgpt")
    => LET rows == IF response.kind = "array" THEN response.rows ELSE <<>>
           L == Len(rows)
           n == Min2(TailRows, L)
           older == Series([q \in 1..L |->
                              Cardinality({p \in 1..L : rows[p][1] < rows[q][1]})])
           at == Series([g \in 1..L |-> CHOOSE q \in 1..L : older[q] = g - 1])
           closes == Series([g \in 1..L |-> FromNumber(rows[at[g]][5])])
       IN /\ Len(SampleSent) = n
          /\ \A j \in 1..n :
               LET g == L - n + j
                   r == rows[at[g]]
                   row == SampleSent[j]
               IN /\ row.time.epoch_s = r[1]
                  /\ row.low = FromNumber(r[2]) /\ row.high = FromNumber(r[3])
                  /\ row.open = FromNumber(r[4]) /\ row.close = FromNumber(r[5])
                  /\ row.volume = FromNumber(r[6])
                  /\ IsNum(row.SMA20) <=> g >= SMAWindow
                  /\ IsNum(row.SMA20)
                       => 2 * Abs(SMAWindow * row.SMA20.v
                                  - SumV(closes, g - SMAWindow + 1, g)) <= SMAWindow
                  /\ g < RSIWindow => IsNaN(row.RSI)
                  /\ g = 1 => row.EMA20 = row.close
                  /\ j > 1 => 2 * Abs((EMASpan + 1) * row.EMA20.v
                                      - ((EMASpan - 1) * SampleSent[j - 1].EMA20.v
                                         + 2 * row.close.v)) <= EMASpan + 1

C9_Witness ==
    /\ pc = "analyzed"
    /\ response.kind = "array"
    /\ Len(response.rows) > TailRows + SMAWindow - 1
    /\ response.rows[1][1] > response.rows[2][1]
    /\ IsNum(SampleSent[1].SMA20)
    /\ Len(SampleSent) = TailRows

(* C10: for strictly increasing closes, MACD > 0 at every index from 1 on,
   and RSI = 100 at every index from 14 on (average loss 0: the division by
   zero gives an infinite RS, and RSI evaluates to 100, not to NaN). *)
C10_RisingCloses ==
    (Enriched /\ StrictlyIncreasing(CloseCol))
    => \A i \in 1..Len(candles) :
         /\ i - 1 >= 1 => (IsNum(candles[i].MACD) /\ candles[i].MACD.v > 0)
         /\ i - 1 >= RSIWindow
              => /\ locals.avg_loss[i] = FNum(0)
                 /\ locals.rs[i].k = "inf"
                 /\ candles[i].RSI = FromNumber(100)

C10_Witness ==
    /\ Enriched
    /\ StrictlyIncreasing(CloseCol)
    /\ Len(candles) > RSIWindow + 1
    /\ candles[Len(candles)].RSI = FromNumber(100)

====
